---------------------------- MODULE Spec2Model ----------------------------
(***************************************************************************)
(* Damage cost aggregation and hybrid pricing engine of car_damage:        *)
(*   src/ml/services/inference.py   normalizer, parser, aggregator, differ *)
(*   src/services/inference.py      the earlier (MMK) aggregator / differ  *)
(*   src/ml/services/pricing_ml.py  the regression model cache + predict   *)
(*   src/ml/services/features.py    the feature builder                    *)
(*   src/ml/api.py                  the /predict and /compare handlers     *)
(*                                                                         *)
(* Text is a sequence of one-character strings, so that strip(), lower()   *)
(* and replace() are computed and not assumed.  Python floats are modelled *)
(* as exact rationals [n, d] (d > 0, lowest terms); a dict is a sequence   *)
(* of <<key, value>> pairs in insertion order, or a function when only     *)
(* the mapping matters; None is the empty tuple, a present value <<v>>.    *)
(***************************************************************************)
EXTENDS Integers, Sequences, FiniteSets, TLC

VARIABLES
    cost_rules,     \* what load_cost_rules() returns (cached, read-only)
    price_map,      \* what load_price_map() returns (cached, read-only)
    env,            \* os.environ knobs read by the engine
    model_file,     \* what is stored at ml/models/price_gbm.pkl
    MODEL_CACHE,    \* pricing_ml._MODEL_CACHE
    call,           \* the last call made: operation and arguments
    ret,            \* what that call returned (or that it raised)
    threads,        \* each concurrent request's position in load_price_model
    loaded          \* the objects joblib.load has constructed, in order

vars == <<cost_rules, price_map, env, model_file, MODEL_CACHE, call, ret, threads, loaded>>

---------------------------------------------------------------------------
(* Bounds of the model *)

MaxBefore == 2
MaxAfter == 2
MaxLabels == 2
MaxDet == 2
MaxTokens == 3
MaxRequests == 2
SqrtRes == 16

---------------------------------------------------------------------------
(* Generic helpers *)

None == <<>>
Some(v) == <<v>>

Range(s) == {s[i] : i \in 1..Len(s)}

SeqsUpTo(S, n) == UNION {[1..k -> S] : k \in 0..n}

Min2(a, b) == IF a <= b THEN a ELSE b

---------------------------------------------------------------------------
(* Python floats as exact rationals *)

Abs(x) == IF x < 0 THEN -x ELSE x

RECURSIVE GCD(_, _)
GCD(a, b) == IF b = 0 THEN a ELSE GCD(b, a % b)

RatBy(n, d, g) == [n |-> n \div g, d |-> d \div g]
Rat(n, d) == IF d < 0 THEN RatBy(-n, -d, GCD(Abs(n), Abs(d)))
             ELSE RatBy(n, d, GCD(Abs(n), Abs(d)))

RInt(k) == [n |-> k, d |-> 1]
RAdd(a, b) == Rat(a.n * b.d + b.n * a.d, a.d * b.d)
RSub(a, b) == Rat(a.n * b.d - b.n * a.d, a.d * b.d)
RMul(a, b) == Rat(a.n * b.n, a.d * b.d)
RDiv(a, b) == Rat(a.n * b.d, a.d * b.n)
RLe(a, b) == a.n * b.d <= b.n * a.d
RLt(a, b) == a.n * b.d < b.n * a.d
RMax(a, b) == IF RLe(b, a) THEN a ELSE b
RMin(a, b) == IF RLe(a, b) THEN a ELSE b

RECURSIVE RSum(_)
RSum(s) == IF s = <<>> THEN RInt(0) ELSE RAdd(s[1], RSum(Tail(s)))

(* int(round(x)): Python 3 rounds a tie to the even integer *)
PyRound(r) ==
    LET Pick(q, rem) == IF 2 * rem < r.d THEN q
                        ELSE IF 2 * rem > r.d THEN q + 1
                        ELSE IF q % 2 = 0 THEN q ELSE q + 1
    IN Pick(r.n \div r.d, r.n % r.d)

(* the integer square root: lo*lo <= x < hi*hi throughout *)
RECURSIVE ISqrtIn(_, _, _)
ISqrtIn(x, lo, hi) ==
    IF hi - lo <= 1 THEN lo
    ELSE IF ((lo + hi) \div 2) * ((lo + hi) \div 2) <= x
         THEN ISqrtIn(x, (lo + hi) \div 2, hi)
         ELSE ISqrtIn(x, lo, (lo + hi) \div 2)
ISqrt(x) == ISqrtIn(x, 0, Min2(x, 46340) + 1)

---------------------------------------------------------------------------
(* Text *)

Lower(c) ==
    CASE c = "S" -> "s"
      [] c = "C" -> "c"
      [] c = "D" -> "d"
      [] c = "M" -> "m"
      [] c = "T" -> "t"
      [] OTHER -> c

IsSpace(c) == c = " "

RECURSIVE LStrip(_)
LStrip(s) == IF s # <<>> /\ IsSpace(s[1]) THEN LStrip(Tail(s)) ELSE s

RECURSIVE RStrip(_)
RStrip(s) ==
    IF s # <<>> /\ IsSpace(s[Len(s)]) THEN RStrip(SubSeq(s, 1, Len(s) - 1)) ELSE s

Strip(s) == RStrip(LStrip(s))

RECURSIVE LowerStr(_)
LowerStr(s) == IF s = <<>> THEN <<>> ELSE <<Lower(s[1])>> \o LowerStr(Tail(s))

T_severe == <<"s", "e", "v", "e", "r", "e">>
T_Severe == <<"S", "e", "v", "e", "r", "e">>
T_serve == <<"s", "e", "r", "v", "e">>
T_minor == <<"m", "i", "n", "o", "r">>
T_minor_padded == <<" ", "m", "i", "n", "o", "r">>
T_moderate == <<"m", "o", "d", "e", "r", "a", "t", "e">>
T_dent == <<"d", "e", "n", "t">>
T_car == <<"c", "a", "r">>
T_Car == <<"C", "a", "r">>
T_truck == <<"t", "r", "u", "c", "k">>
T_truck_padded == <<" ", "t", "r", "u", "c", "k">>
T_scooter == <<"s", "c", "o", "o", "t", "e", "r">>
T_boat == <<"b", "o", "a", "t">>
T_motorcycle == <<"m", "o", "t", "o", "r", "c", "y", "c", "l", "e">>
T_per_item_usd == <<"p", "e", "r", "_", "i", "t", "e", "m", "_", "u", "s", "d">>
T_parts_usd == <<"p", "a", "r", "t", "s", "_", "u", "s", "d">>
T_labor_h == <<"l", "a", "b", "o", "r", "_", "h">>
T_paint_h == <<"p", "a", "i", "n", "t", "_", "h">>

(* ALIAS_MAP = {"serve": "severe"} *)
ALIAS_MAP == <<<<T_serve, T_severe>>>>

RECURSIVE AliasGet(_, _)
AliasGet(m, k) ==
    IF m = <<>> THEN k
    ELSE IF m[Len(m)][1] = k THEN m[Len(m)][2]
    ELSE AliasGet(SubSeq(m, 1, Len(m) - 1), k)

normalize_class_key(name) == AliasGet(ALIAS_MAP, LowerStr(Strip(name)))

---------------------------------------------------------------------------
(* Parsed JSON: a number, or an object as <<key, value>> pairs in file order *)

JNum(k) == [kind |-> "num", num |-> k, items |-> <<>>]
JMap(items) == [kind |-> "map", num |-> 0, items |-> items]
IsDict(v) == v.kind = "map"

(* Python truthiness of a parsed value: 0 and {} are falsy *)
Truthy(v) == IF v.kind = "map" THEN v.items # <<>> ELSE v.num # 0

Keys(items) == {items[i][1] : i \in 1..Len(items)}

(* d[key] / d.get(key): None when the key is absent *)
RECURSIVE DictGet(_, _)
DictGet(items, key) ==
    IF items = <<>> THEN None
    ELSE IF items[Len(items)][1] = key THEN Some(items[Len(items)][2])
    ELSE DictGet(SubSeq(items, 1, Len(items) - 1), key)

(* {normalize_class_key(k): v for k, v in d.items()}.get(key): a later item wins *)
RECURSIVE NormGet(_, _)
NormGet(items, key) ==
    IF items = <<>> THEN None
    ELSE IF normalize_class_key(items[Len(items)][1]) = key THEN Some(items[Len(items)][2])
    ELSE NormGet(SubSeq(items, 1, Len(items) - 1), key)

(* per-class tally of a label list, as a mapping class -> count *)
Tally(labels) ==
    [k \in Range(labels) |-> Cardinality({i \in 1..Len(labels) : labels[i] = k})]

---------------------------------------------------------------------------
(* Price-Range Parser.  The en dash and the em dash are the one-character  *)
(* strings "EN" and "EM".                                                  *)

IsPrefix(pat, s) == Len(pat) <= Len(s) /\ SubSeq(s, 1, Len(pat)) = pat

(* str.replace(pat, rep): left to right, non-overlapping *)
RECURSIVE Replace(_, _, _)
Replace(s, pat, rep) ==
    IF s = <<>> THEN <<>>
    ELSE IF IsPrefix(pat, s)
         THEN rep \o Replace(SubSeq(s, Len(pat) + 1, Len(s)), pat, rep)
         ELSE <<s[1]>> \o Replace(Tail(s), pat, rep)

(* str.split(sep) for a one-character separator: always at least one part *)
RECURSIVE SplitAcc(_, _, _)
SplitAcc(s, sep, cur) ==
    IF s = <<>> THEN <<cur>>
    ELSE IF s[1] = sep THEN <<cur>> \o SplitAcc(Tail(s), sep, <<>>)
    ELSE SplitAcc(Tail(s), sep, Append(cur, s[1]))
Split(s, sep) == SplitAcc(s, sep, <<>>)

DigitChars == {"0", "1", "2", "3", "4", "5", "6", "7", "8", "9"}
DigitVal(c) ==
    CASE c = "0" -> 0 [] c = "1" -> 1 [] c = "2" -> 2 [] c = "3" -> 3 [] c = "4" -> 4
      [] c = "5" -> 5 [] c = "6" -> 6 [] c = "7" -> 7 [] c = "8" -> 8 [] c = "9" -> 9

RECURSIVE DigitRun(_, _)
DigitRun(s, acc) ==
    IF s # <<>> /\ s[1] \in DigitChars
    THEN DigitRun(Tail(s), 10 * acc + DigitVal(s[1]))
    ELSE acc

(* int(re.findall(r"\d+", p)[0]) when findall is non-empty, else None *)
RECURSIVE FirstInt(_)
FirstInt(s) ==
    IF s = <<>> THEN None
    ELSE IF s[1] \in DigitChars THEN Some(DigitRun(s, 0))
    ELSE FirstInt(Tail(s))

(* lines 82-83: the first integer of every non-blank part that holds one *)
RECURSIVE PartInts(_)
PartInts(parts) ==
    IF parts = <<>> THEN <<>>
    ELSE FirstInt(Strip(parts[1])) \o PartInts(Tail(parts))

(* lines 84-88 *)
range_of(nums, has_plus) ==
    IF nums = <<>> THEN [min |-> 0, max |-> None, has_plus |-> has_plus]
    ELSE IF Len(nums) = 1 THEN [min |-> nums[1], max |-> None, has_plus |-> TRUE]
    ELSE [min |-> nums[1], max |-> Some(nums[2]), has_plus |-> has_plus]

(* lines 78-79 *)
normalize_range_text(price_str) ==
    Replace(Replace(Strip(Replace(Replace(price_str, <<"M", "M", "K">>, <<>>), <<",">>, <<>>)),
                    <<"EN">>, <<"-">>), <<"EM">>, <<"-">>)

(* returns [min, max (None or <<int>>), has_plus] *)
parse_price_range_to_min_max(price_str) ==
    LET Parse(normalized) ==
            range_of(PartInts(Split(Replace(normalized, <<"+">>, <<>>), "-")),
                     "+" \in Range(normalized))
    IN Parse(normalize_range_text(price_str))

---------------------------------------------------------------------------
(* Rule Resolver: lines 108-129 of aggregate_costs_for_classes.            *)
(* vehicle_type is None or <<text>>.  The result is the selected mapping,  *)
(* or the exception the lookup raises.                                     *)

SeverityLikeKeys == {T_minor, T_moderate, T_severe}

RECURSIVE FirstDict(_, _)
FirstDict(items, dflt) ==
    IF items = <<>> THEN dflt
    ELSE IF IsDict(items[1][2]) THEN items[1][2]
    ELSE FirstDict(Tail(items), dflt)

(* lines 111-112: the normalized vehicle type, None when not supplied *)
vehicle_key(vehicle_type) ==
    IF vehicle_type # None /\ vehicle_type[1] # <<>>
    THEN Some(normalize_class_key(vehicle_type[1])) ELSE None

(* lines 116-128: no sub-mapping picked by vehicle type *)
resolve_default(rules, top_keys) ==
    IF SeverityLikeKeys \cap top_keys # {}
    THEN [raised |-> "", selected |-> rules]
    ELSE IF T_car \in top_keys
    THEN (IF DictGet(rules.items, T_car) = None
          THEN [raised |-> "KeyError", selected |-> rules]
          ELSE [raised |-> "", selected |-> DictGet(rules.items, T_car)[1]])
    ELSE [raised |-> "", selected |-> FirstDict(rules.items, rules)]

resolve_rules(rules, vehicle_type) ==
    LET ByVt(byVt) ==
            IF byVt # None /\ IsDict(byVt[1])
            THEN [raised |-> "", selected |-> byVt[1]]
            ELSE resolve_default(rules, {normalize_class_key(k) : k \in Keys(rules.items)})
        Lookup(vt) == ByVt(IF vt # None THEN DictGet(rules.items, vt[1]) ELSE None)
    IN Lookup(vehicle_key(vehicle_type))

---------------------------------------------------------------------------
(* Area scaling: lines 136-146 and 163-172.  AREA_GAMMA is held as the     *)
(* number of halves (1 is the exponent 1/2): an odd number of halves is a  *)
(* square root, taken to the resolution SqrtRes.                           *)

RECURSIVE IntPow(_, _)
IntPow(x, k) == IF k = 0 THEN RInt(1) ELSE RMul(x, IntPow(x, k - 1))

RSqrt(x) == Rat(ISqrt(x.n * x.d * SqrtRes * SqrtRes), x.d * SqrtRes)

(* x ** gamma for x >= 0: 0.0 to a negative power raises ZeroDivisionError *)
PyPow(x, halves) ==
    IF halves = 0 THEN [raised |-> "", v |-> RInt(1)]
    ELSE IF x.n = 0
    THEN (IF halves < 0 THEN [raised |-> "ZeroDivisionError", v |-> RInt(0)]
          ELSE [raised |-> "", v |-> RInt(0)])
    ELSE LET k == Abs(halves)
             m == RMul(IntPow(x, k \div 2), IF k % 2 = 1 THEN RSqrt(x) ELSE RInt(1))
         IN [raised |-> "", v |-> IF halves > 0 THEN m ELSE RDiv(RInt(1), m)]

(* max(0.0, min(1.0, float(a))) *)
clamp_area(a) == RMax(RInt(0), RMin(RInt(1), a))

(* scale = max(area_min_scale, min(area_max_scale, scale)) *)
clamp_scale(scale, e) == RMax(e.AREA_MIN_SCALE, RMin(e.AREA_MAX_SCALE, scale))

(* lines 170-171: the multiplier applied to base_each for a clamped area a *)
area_scale(a, e) ==
    LET Clamped(p) == [raised |-> p.raised, v |-> clamp_scale(p.v, e)]
    IN Clamped(IF RLt(RInt(0), e.AREA_REF)
               THEN PyPow(RDiv(a, e.AREA_REF), e.AREA_GAMMA)
               ELSE [raised |-> "", v |-> RInt(1)])

---------------------------------------------------------------------------
(* Cost Aggregator, src/ml/services/inference.py *)

RECURSIVE SetToSeq(_)
SetToSeq(S) ==
    IF S = {} THEN <<>>
    ELSE LET Put(x) == <<x>> \o SetToSeq(S \ {x}) IN Put(CHOOSE y \in S : TRUE)

FirstRaised(a, b) == IF a # "" THEN a ELSE b

(* float(rule.get(key, 0)): a nested object is a TypeError *)
RuleNum(rule, key) ==
    LET Num(v) == IF v = None THEN [raised |-> "", v |-> RInt(0)]
                  ELSE IF IsDict(v[1]) THEN [raised |-> "TypeError", v |-> RInt(0)]
                  ELSE [raised |-> "", v |-> RInt(v[1].num)]
    IN Num(DictGet(rule.items, key))

(* lines 155-161: the base cost per item of a (truthy) rule *)
base_each_of(rule, e) ==
    IF ~IsDict(rule) THEN [raised |-> "TypeError", v |-> RInt(0)]
    ELSE IF DictGet(rule.items, T_per_item_usd) # None
    THEN LET PerItem(q) == [raised |-> q.raised, v |-> RMul(q.v, e.COST_MULTIPLIER)]
         IN PerItem(RuleNum(rule, T_per_item_usd))
    ELSE LET Parts(parts, labor_h, paint_h) ==
                 [raised |-> FirstRaised(parts.raised,
                                         FirstRaised(labor_h.raised, paint_h.raised)),
                  v |-> RMul(RAdd(RAdd(parts.v, RMul(labor_h.v, RInt(e.LABOR_RATE_USD))),
                                  RAdd(RMul(paint_h.v, RInt(e.PAINT_RATE_USD)),
                                       RInt(e.MATERIALS_USD))),
                             e.COST_MULTIPLIER)]
         IN Parts(RuleNum(rule, T_parts_usd), RuleNum(rule, T_labor_h),
                  RuleNum(rule, T_paint_h))

(* line 143: areas are grouped by class only when given with one per label *)
areas_aligned(detected_classes, areas) ==
    areas # None /\ Len(areas[1]) = Len(detected_classes)

(* class_areas_of taking the first areas of the list, as many as the class  *)
(* has detections, whatever label each area came with                      *)
class_areas_unkeyed(detected_classes, arealist, cls) ==
    LET Take(n) == [i \in 1..n |-> clamp_area(arealist[i])]
    IN Take(Cardinality({i \in 1..Len(detected_classes) :
                            normalize_class_key(detected_classes[i]) = cls}))

(* lines 144-146: the areas of class cls, clamped, in detection order *)
RECURSIVE class_areas_of(_, _, _)
class_areas_of(detected_classes, arealist, cls) ==
    IF detected_classes = <<>> THEN <<>>
    ELSE (IF normalize_class_key(detected_classes[1]) = cls
          THEN <<clamp_area(arealist[1])>> ELSE <<>>)
         \o class_areas_of(Tail(detected_classes), Tail(arealist), cls)

(* lines 166-172: base_each scaled by each area of the class *)
RECURSIVE scale_items(_, _, _)
scale_items(class_areas, base_each, e) ==
    IF class_areas = <<>> THEN [raised |-> "", costs |-> <<>>]
    ELSE LET Join(sc, rest) ==
                 [raised |-> FirstRaised(sc.raised, rest.raised),
                  costs |-> <<RMul(base_each, sc.v)>> \o rest.costs]
         IN Join(area_scale(class_areas[1], e),
                 scale_items(Tail(class_areas), base_each, e))

RECURSIVE Repeat(_, _)
Repeat(v, k) == IF k <= 0 THEN <<>> ELSE <<v>> \o Repeat(v, k - 1)

(* lines 164-176: the per-item costs of one priced class *)
per_item_costs_of(detected_classes, areas, cls, count, base_each, e) ==
    IF areas_aligned(detected_classes, areas)
    THEN LET Pad(r) == [raised |-> r.raised,
                        costs |-> r.costs \o Repeat(base_each, count - Len(r.costs))]
         IN Pad(scale_items(class_areas_of(detected_classes, areas[1], cls), base_each, e))
    ELSE [raised |-> "", costs |-> Repeat(base_each, count)]

(* lines 150-186, one turn of the loop: the cost entry of a priced class *)
class_cost(cls, count, rule, detected_classes, areas, e) ==
    LET WithBase(b) ==
            LET WithItems(it) ==
                    LET WithSum(sum) ==
                            [cls |-> cls, raised |-> FirstRaised(b.raised, it.raised),
                             count |-> count, sum |-> sum,
                             avg_each |-> RDiv(sum, RInt(Len(it.costs)))]
                    IN WithSum(RSum(it.costs))
            IN WithItems(per_item_costs_of(detected_classes, areas, cls, count, b.v, e))
    IN WithBase(base_each_of(rule, e))

RECURSIVE class_costs(_, _, _, _, _, _)
class_costs(classes, per_class_counts, selected, detected_classes, areas, e) ==
    IF classes = <<>> THEN <<>>
    ELSE <<class_cost(classes[1], per_class_counts[classes[1]],
                      NormGet(selected.items, classes[1])[1], detected_classes, areas, e)>>
         \o class_costs(Tail(classes), per_class_counts, selected, detected_classes, areas, e)

Raise(kind) ==
    [status |-> "raise", raised |-> kind, counts |-> <<>>, per_class_costs |-> <<>>,
     totals |-> [min |-> 0, max |-> None, open_ended |-> FALSE, currency |-> ""]]

RECURSIVE SumOfSums(_)
SumOfSums(cc) == IF cc = <<>> THEN RInt(0) ELSE RAdd(cc[1].sum, SumOfSums(Tail(cc)))

(* totals_of with int(total) for int(round(total)): the total truncated *)
totals_truncated(total) ==
    LET Cut(t) == [min |-> t, max |-> Some(t), open_ended |-> FALSE, currency |-> "USD"]
    IN Cut(total.n \div total.d)

(* line 187: totals, from the running total *)
totals_of(total) ==
    LET Rounded(t) == [min |-> t, max |-> Some(t), open_ended |-> FALSE, currency |-> "USD"]
    IN Rounded(PyRound(total))

(* reported_counts keeping only the classes that were priced *)
reported_counts_priced(per_class_counts, cc) ==
    [c \in {cc[i].cls : i \in 1..Len(cc)} |-> per_class_counts[c]]

(* line 188: "counts" is the whole tally, priced or not *)
reported_counts(per_class_counts, cc) == per_class_counts

(* lines 179-188: the summary, from the cost entries of the priced classes *)
summary_of(per_class_counts, cc) ==
    IF \E i \in 1..Len(cc) : cc[i].raised # ""
    THEN Raise(cc[CHOOSE i \in 1..Len(cc) : cc[i].raised # ""].raised)
    ELSE [status |-> "ok", raised |-> "",
          counts |-> reported_counts(per_class_counts, cc),
          per_class_costs |->
              [c \in {cc[i].cls : i \in 1..Len(cc)} |->
                  LET Entry(r) == [count |-> r.count, min_each |-> r.avg_each,
                                   max_each |-> r.avg_each, open_ended |-> FALSE]
                  IN Entry(cc[CHOOSE i \in 1..Len(cc) : cc[i].cls = c])],
          totals |-> totals_of(SumOfSums(cc))]

(* line 151-153: the classes of the tally that have a truthy rule *)
priced_by_rules(per_class_counts, selected) ==
    {c \in DOMAIN per_class_counts :
        /\ NormGet(selected.items, c) # None
        /\ Truthy(NormGet(selected.items, c)[1])}

(* lines 148-188: the structured-rules path, for the selected mapping *)
rules_path(detected_classes, per_class_counts, selected, areas, e) ==
    summary_of(per_class_counts,
               class_costs(SetToSeq(priced_by_rules(per_class_counts, selected)),
                           per_class_counts, selected, detected_classes, areas, e))

(* lines 200-205: the USD point estimate of a textual MMK range *)
each_usd_of(range_text, e) ==
    LET Mid(r) ==
            RMul(IF e.FX_MMK_PER_USD > 0
                 THEN RDiv(Rat(r.min + (IF r.max = None THEN r.min ELSE r.max[1]), 2),
                           RInt(e.FX_MMK_PER_USD))
                 ELSE Rat(r.min + (IF r.max = None THEN r.min ELSE r.max[1]), 2),
                 e.COST_MULTIPLIER)
    IN Mid(parse_price_range_to_min_max(range_text))

(* lines 197-213, one turn of the loop *)
legacy_class_cost(cls, count, range_text, e) ==
    LET Entry(each_usd) == [cls |-> cls, raised |-> "", count |-> count,
                            sum |-> RMul(each_usd, RInt(count)), avg_each |-> each_usd]
    IN Entry(each_usd_of(range_text, e))

RECURSIVE legacy_class_costs(_, _, _, _)
legacy_class_costs(classes, per_class_counts, pm, e) ==
    IF classes = <<>> THEN <<>>
    ELSE <<legacy_class_cost(classes[1], per_class_counts[classes[1]],
                             NormGet(pm, classes[1])[1], e)>>
         \o legacy_class_costs(Tail(classes), per_class_counts, pm, e)

(* lines 190-216: the price-range fallback (MMK midpoint -> USD) *)
legacy_path(per_class_counts, pm, e) ==
    summary_of(per_class_counts,
               legacy_class_costs(SetToSeq({c \in DOMAIN per_class_counts : NormGet(pm, c) # None}),
                                  per_class_counts, pm, e))

RECURSIVE MapNormalize(_)
MapNormalize(labels) ==
    IF labels = <<>> THEN <<>>
    ELSE <<normalize_class_key(labels[1])>> \o MapNormalize(Tail(labels))

(* per_class_counts_of with "= 1" for "= per_class_counts.get(cls, 0) + 1" *)
per_class_counts_seen(detected_classes) ==
    LET Seen(normalized_classes) == [k \in Range(normalized_classes) |-> 1]
    IN Seen(MapNormalize(detected_classes))

(* lines 97-103: normalize, then count per class *)
per_class_counts_of(detected_classes) ==
    LET Count(normalized_classes) == Tally(normalized_classes)
    IN Count(MapNormalize(detected_classes))

(* lines 106-129 and 188: the rules path when a rules object is configured *)
with_rules(detected_classes, per_class_counts, r, areas, e) ==
    IF r.raised # "" THEN Raise(r.raised)
    ELSE IF ~IsDict(r.selected) THEN Raise("AttributeError")
    ELSE rules_path(detected_classes, per_class_counts, r.selected, areas, e)

(* rules is what load_cost_rules() returned: None or <<parsed JSON object>> *)
aggregate_costs_for_classes(detected_classes, pm, vehicle_type, areas, rules, e) ==
    IF rules # None /\ Truthy(rules[1])
    THEN with_rules(detected_classes, per_class_counts_of(detected_classes),
                    resolve_rules(rules[1], vehicle_type), areas, e)
    ELSE legacy_path(per_class_counts_of(detected_classes), pm, e)

---------------------------------------------------------------------------
(* The earlier aggregator, src/services/inference.py: raw keys, MMK ranges *)

(* lines 59-75, one turn of the loop *)
services_class_cost(cls, count, range_text) ==
    LET Entry(r) == [cls |-> cls, count |-> count, min_each |-> r.min, max_each |-> r.max,
                     open_ended |-> r.has_plus \/ r.max = None]
    IN Entry(parse_price_range_to_min_max(range_text))

RECURSIVE services_class_costs(_, _, _)
services_class_costs(classes, per_class_counts, pm) ==
    IF classes = <<>> THEN <<>>
    ELSE <<services_class_cost(classes[1], per_class_counts[classes[1]],
                               DictGet(pm, classes[1])[1])>>
         \o services_class_costs(Tail(classes), per_class_counts, pm)

RECURSIVE services_total_min(_)
services_total_min(cc) ==
    IF cc = <<>> THEN 0 ELSE cc[1].min_each * cc[1].count + services_total_min(Tail(cc))

RECURSIVE services_total_max(_)
services_total_max(cc) ==
    IF cc = <<>> THEN 0 ELSE cc[1].max_each[1] * cc[1].count + services_total_max(Tail(cc))

(* lines 77-88 *)
services_summary_of(per_class_counts, cc) ==
    [status |-> "ok", raised |-> "",
     counts |-> per_class_counts,
     per_class_costs |->
         [c \in {cc[i].cls : i \in 1..Len(cc)} |->
             LET Entry(r) == [count |-> r.count, min_each |-> RInt(r.min_each),
                              max_each |-> IF r.max_each = None THEN None
                                           ELSE Some(RInt(r.max_each[1])),
                              open_ended |-> r.open_ended]
             IN Entry(cc[CHOOSE i \in 1..Len(cc) : cc[i].cls = c])],
     totals |-> [min |-> services_total_min(cc),
                 max |-> IF \E i \in 1..Len(cc) : cc[i].open_ended THEN None
                         ELSE Some(services_total_max(cc)),
                 open_ended |-> \E i \in 1..Len(cc) : cc[i].open_ended,
                 currency |-> "MMK"]]

(* lines 49-88 *)
services_aggregate_costs_for_classes(detected_classes, pm) ==
    LET Priced(per_class_counts) ==
            services_summary_of(per_class_counts,
                services_class_costs(SetToSeq({c \in DOMAIN per_class_counts :
                                                   DictGet(pm, c) # None}),
                                     per_class_counts, pm))
    IN Priced(Tally(detected_classes))

---------------------------------------------------------------------------
(* Before/After Differencer.  A detection set is what detect_from_numpy    *)
(* returns: [classes, areas], the two lists of one length.                 *)

(* lines 259-264: before_counts / after_counts *)
class_counts(classes) == Tally(classes)

CountGet(m, c) == IF c \in DOMAIN m THEN m[c] ELSE 0

(* new_damage_counts_of without the "if delta > 0" filter *)
new_damage_counts_signed(before_counts, after_counts) ==
    [c \in DOMAIN before_counts \cup DOMAIN after_counts |->
        CountGet(after_counts, c) - CountGet(before_counts, c)]

(* lines 266-270: the positive per-class increases *)
new_damage_counts_of(before_counts, after_counts) ==
    [c \in {x \in DOMAIN before_counts \cup DOMAIN after_counts :
               CountGet(after_counts, x) - CountGet(before_counts, x) > 0} |->
        CountGet(after_counts, c) - CountGet(before_counts, c)]

(* lines 272-274: each class repeated delta times *)
RECURSIVE expand_deltas(_, _)
expand_deltas(deltas, classes) ==
    IF classes = <<>> THEN <<>>
    ELSE Repeat(classes[1], deltas[classes[1]]) \o expand_deltas(deltas, Tail(classes))

(* lines 277-284 *)
differ_summary(before, after, before_counts, after_counts, deltas, cost_summary) ==
    [status |-> cost_summary.status, raised |-> cost_summary.raised,
     before |-> before, after |-> after,
     before_counts |-> before_counts, after_counts |-> after_counts,
     new_damage_counts |-> deltas, new_damage_costs |-> cost_summary]

compare_before_after(before, after, pm, rules, e) ==
    LET Priced(before_counts, after_counts, deltas) ==
            differ_summary(before, after, before_counts, after_counts, deltas,
                aggregate_costs_for_classes(expand_deltas(deltas, SetToSeq(DOMAIN deltas)),
                                            pm, None, None, rules, e))
        Counted(before_counts, after_counts) ==
            Priced(before_counts, after_counts,
                   new_damage_counts_of(before_counts, after_counts))
    IN Counted(class_counts(before.classes), class_counts(after.classes))

(* src/services/inference.py lines 109-144 *)
services_compare_before_after(before, after, pm) ==
    LET Priced(before_counts, after_counts, deltas) ==
            differ_summary(before, after, before_counts, after_counts, deltas,
                services_aggregate_costs_for_classes(
                    expand_deltas(deltas, SetToSeq(DOMAIN deltas)), pm))
        Counted(before_counts, after_counts) ==
            Priced(before_counts, after_counts,
                   new_damage_counts_of(before_counts, after_counts))
    IN Counted(class_counts(before.classes), class_counts(after.classes))

(* api.py lines 113 and 118: the key under which /compare reads and writes *)
(* the remaining new-damage count of an "after" detection                  *)
remaining_key(cls) == normalize_class_key(cls)

(* api.py lines 108-118: pick the "after" detections that are new damage;  *)
(* remaining starts as a copy of new_damage_counts                         *)
RECURSIVE select_new(_, _, _, _)
select_new(classes, after_areas, i, remaining) ==
    IF i > Len(classes) THEN [expanded_new |-> <<>>, areas_new |-> <<>>]
    ELSE LET Step(k, nleft) ==
                 IF nleft > 0
                 THEN LET Put(rest) ==
                              [expanded_new |-> <<classes[i]>> \o rest.expanded_new,
                               areas_new |-> (IF i <= Len(after_areas)
                                              THEN <<after_areas[i]>> ELSE <<>>)
                                             \o rest.areas_new]
                      IN Put(select_new(classes, after_areas, i + 1,
                                        [remaining EXCEPT ![k] = nleft - 1]))
                 ELSE select_new(classes, after_areas, i + 1, remaining)
             Look(k) == Step(k, CountGet(remaining, k))
         IN Look(remaining_key(classes[i]))

---------------------------------------------------------------------------
(* Feature Builder, src/ml/services/features.py.  A feature vector is a    *)
(* sequence of rationals in the order of FEATURE_NAMES; det is a record    *)
(* that may lack any of its keys.                                          *)

FEATURE_NAMES ==
    << "n_boxes", "area_sum", "area_mean", "area_max", "area_std",
       "conf_mean", "conf_max", "conf_std",
       "img_w", "img_h", "img_area", "aspect_ratio",
       "cnt_minor", "cnt_moderate", "cnt_severe",
       "area_minor_sum", "area_moderate_sum", "area_severe_sum",
       "rule_price_usd",
       "vt_car", "vt_truck", "vt_motorcycle", "vt_scooter", "vt_boat" >>

VehicleKeys == <<T_car, T_truck, T_motorcycle, T_scooter, T_boat>>

_one_hot_vehicle_type(vehicle_type) ==
    LET Hot(vt) == [i \in 1..Len(VehicleKeys) |-> IF vt = VehicleKeys[i] THEN 1 ELSE 0]
    IN Hot(normalize_class_key(IF vehicle_type = None THEN <<>> ELSE vehicle_type[1]))

(* det.get(key, []) or [] *)
DetGet(det, key) == IF key \in DOMAIN det THEN det[key] ELSE <<>>

(* numpy reductions of a non-empty float array *)
RECURSIVE RMaxSeq(_)
RMaxSeq(s) == IF Len(s) = 1 THEN s[1] ELSE RMax(s[1], RMaxSeq(Tail(s)))
RMean(s) == RDiv(RSum(s), RInt(Len(s)))
RStd(s) ==
    LET Dev(m) == [i \in 1..Len(s) |-> RMul(RSub(s[i], m), RSub(s[i], m))]
    IN RSqrt(RMean(Dev(RMean(s))))

(* lines 84-91: (h, w) *)
image_geometry(det, image_shape) ==
    IF image_shape = None
    THEN IF "annotated_image" \in DOMAIN det THEN det.annotated_image ELSE <<0, 0>>
    ELSE image_shape[1]

(* the aspect ratio with height and width exchanged *)
aspect_inverted(h, w) == IF h > 0 THEN Rat(h, w) ELSE RInt(0)

(* line 93 *)
aspect_of(h, w) == IF h > 0 THEN Rat(w, h) ELSE RInt(0)

(* lines 105-109: [raised, cnt, area] *)
sum_for(classes, areas, target) ==
    LET Sum(idx) ==
            IF idx = {} THEN [raised |-> "", cnt |-> 0, area |-> RInt(0)]
            ELSE IF areas = <<>>
            THEN [raised |-> "", cnt |-> Cardinality(idx), area |-> RInt(0)]
            ELSE IF \E i \in idx : i > Len(areas)
            THEN [raised |-> "IndexError", cnt |-> 0, area |-> RInt(0)]
            ELSE [raised |-> "", cnt |-> Cardinality(idx),
                  area |-> RSum([i \in 1..Len(areas) |->
                                   IF i \in idx THEN areas[i] ELSE RInt(0)])]
    IN Sum({i \in 1..Len(classes) : classes[i] = target})

(* lines 59-142: [raised, feats] *)
compute_features(det, vehicle_type, rule_price_usd, image_shape) ==
    LET Build(classes, confs, areas, hw) ==
            LET n == Len(classes)
                Vec(mi, mo, se) ==
                    IF mi.raised # "" THEN [raised |-> mi.raised, feats |-> <<>>]
                    ELSE IF mo.raised # "" THEN [raised |-> mo.raised, feats |-> <<>>]
                    ELSE IF se.raised # "" THEN [raised |-> se.raised, feats |-> <<>>]
                    ELSE [raised |-> "",
                          feats |->
                            << RInt(n),
                               IF n > 0 THEN RSum(areas) ELSE RInt(0),
                               IF n > 0 THEN RMean(areas) ELSE RInt(0),
                               IF n > 0 THEN RMaxSeq(areas) ELSE RInt(0),
                               IF n > 0 THEN RStd(areas) ELSE RInt(0),
                               IF confs # <<>> THEN RMean(confs) ELSE RInt(0),
                               IF confs # <<>> THEN RMaxSeq(confs) ELSE RInt(0),
                               IF confs # <<>> THEN RStd(confs) ELSE RInt(0),
                               RInt(hw[2]), RInt(hw[1]), RInt(hw[1] * hw[2]),
                               aspect_of(hw[1], hw[2]),
                               RInt(mi.cnt), RInt(mo.cnt), RInt(se.cnt),
                               mi.area, mo.area, se.area,
                               rule_price_usd >>
                            \o [i \in 1..Len(VehicleKeys) |->
                                   RInt(_one_hot_vehicle_type(vehicle_type)[i])]]
            IN (* line 98: max() of an empty array has no identity *)
               IF n > 0 /\ areas = <<>>
               THEN [raised |-> "ValueError", feats |-> <<>>]
               ELSE Vec(sum_for(classes, areas, T_minor),
                        sum_for(classes, areas, T_moderate),
                        sum_for(classes, areas, T_severe))
    IN Build(MapNormalize(DetGet(det, "classes")), DetGet(det, "confidences"),
             DetGet(det, "areas"), image_geometry(det, image_shape))

(* the position of a named field in the vector *)
FeatureIndex(name) == CHOOSE i \in 1..Len(FEATURE_NAMES) : FEATURE_NAMES[i] = name

---------------------------------------------------------------------------
(* ML pricing, src/ml/services/pricing_ml.py.                              *)
(* model_file is [kind, reg]: kind "absent" (no file), "corrupt"           *)
(* (joblib.load raises), "empty" (a payload dict with no "model") or       *)
(* "model"; reg is the persisted regressor [behaviour, bias, w_n, w_rule]: *)
(* predict() raises, or returns NaN, or bias + w_n*n_boxes +               *)
(* w_rule*rule_price_usd.  A cache or a result is None or <<value>>.       *)

Regressor(behaviour, bias, w_n, w_rule) ==
    [behaviour |-> behaviour, bias |-> bias, w_n |-> w_n, w_rule |-> w_rule]
NoReg == Regressor("none", 0, 0, 0)

(* lines 30-42 *)
load_price_model(cache, file) ==
    IF cache # None THEN [raised |-> "", model |-> cache, cache |-> cache]
    ELSE IF file.kind = "absent" THEN [raised |-> "", model |-> None, cache |-> cache]
    ELSE IF file.kind = "corrupt"
    THEN [raised |-> "UnpicklingError", model |-> None, cache |-> cache]
    ELSE IF file.kind = "empty" THEN [raised |-> "", model |-> None, cache |-> None]
    ELSE [raised |-> "", model |-> Some(file.reg), cache |-> Some(file.reg)]

(* lines 45-46 *)
has_price_model(cache, file) ==
    LET Has(l) == [raised |-> l.raised, has |-> l.model # None, cache |-> l.cache]
    IN Has(load_price_model(cache, file))

(* line 62: model.predict(feats)[0] *)
regressor_predict(reg, feats) ==
    IF reg.behaviour = "raise" THEN [raised |-> "ValueError", nan |-> FALSE, v |-> RInt(0)]
    ELSE IF reg.behaviour = "nan" THEN [raised |-> "", nan |-> TRUE, v |-> RInt(0)]
    ELSE [raised |-> "", nan |-> FALSE,
          v |-> RAdd(RAdd(RInt(reg.bias),
                          RMul(RInt(reg.w_n), feats[FeatureIndex("n_boxes")])),
                     RMul(RInt(reg.w_rule), feats[FeatureIndex("rule_price_usd")]))]

(* lines 63-66: the guardrails on a prediction *)
guard_prediction(p) ==
    IF p.nan \/ RLt(p.v, RInt(0)) THEN None ELSE Some(p.v)

(* lines 61-66, with the model loaded *)
predict_with(model, cache, f) ==
    IF f.raised # "" THEN [raised |-> f.raised, price |-> None, cache |-> cache]
    ELSE LET Guard(p) ==
                 IF p.raised # "" THEN [raised |-> p.raised, price |-> None, cache |-> cache]
                 ELSE [raised |-> "", price |-> guard_prediction(p), cache |-> cache]
         IN Guard(regressor_predict(model, f.feats))

(* lines 49-66 *)
predict_price_usd_from_detection(det, vehicle_type, rule_price_usd, image_shape, cache, file) ==
    LET Loaded(l) ==
            IF l.raised # "" THEN [raised |-> l.raised, price |-> None, cache |-> l.cache]
            ELSE IF l.model = None THEN [raised |-> "", price |-> None, cache |-> l.cache]
            ELSE predict_with(l.model[1], l.cache,
                              compute_features(det, vehicle_type, rule_price_usd,
                                               image_shape))
    IN Loaded(load_price_model(cache, file))

---------------------------------------------------------------------------
(* Hybrid Price Selector and the handlers, src/ml/api.py *)

(* (img.shape[0], img.shape[1]) of the decoded upload *)
ImageShape == Some(<<480, 640>>)

(* choose_final_price with the two blend weights exchanged *)
choose_final_price_swapped(rule_total, ml, mode, alpha) ==
    IF mode = "ml" /\ ml # None
    THEN [provider |-> "ml", final |-> ml[1]]
    ELSE IF mode = "hybrid" /\ ml # None
    THEN [provider |-> "hybrid",
          final |-> RAdd(RMul(RSub(RInt(1), alpha), ml[1]), RMul(alpha, RInt(rule_total)))]
    ELSE [provider |-> "rule", final |-> RInt(rule_total)]

(* lines 62-70 and 133-140: rule_total is totals["min"], ml is None or <<price>> *)
choose_final_price(rule_total, ml, mode, alpha) ==
    IF mode = "ml" /\ ml # None
    THEN [provider |-> "ml", final |-> ml[1]]
    ELSE IF mode = "hybrid" /\ ml # None
    THEN [provider |-> "hybrid",
          final |-> RAdd(RMul(alpha, ml[1]), RMul(RSub(RInt(1), alpha), RInt(rule_total)))]
    ELSE [provider |-> "rule", final |-> RInt(rule_total)]

Fault(kind, cache) == [status |-> "fault", raised |-> kind, cache |-> cache]

NoPrice(cache) == [raised |-> "", price |-> None, cache |-> cache]

(* lines 72-82: the per-detection cost entries of the response *)
detections_of(classes, per_class_costs) ==
    [i \in 1..Len(classes) |->
        [class |-> classes[i],
         each_cost_usd |->
             IF normalize_class_key(classes[i]) \in DOMAIN per_class_costs
             THEN Some(per_class_costs[normalize_class_key(classes[i])].min_each)
             ELSE None]]

(* lines 84-97 *)
predict_response(det, rule_costs, m, d) ==
    [status |-> "ok", raised |-> "", cache |-> m.cache,
     classes |-> det.classes,
     detections |-> detections_of(det.classes, rule_costs.per_class_costs),
     counts |-> rule_costs.counts,
     per_class_costs |-> rule_costs.per_class_costs,
     totals_rule |-> rule_costs.totals,
     price |-> [provider |-> d.provider, ml_usd |-> m.price,
                rule_usd |-> rule_costs.totals.min, final_usd |-> d.final]]

(* lines 48-97: POST /predict on the detections det of the uploaded image *)
predict(det, vehicle_type, pm, rules, e, cache, file) ==
    LET Priced(rule_costs, m) ==
            IF m.raised # "" THEN Fault(m.raised, m.cache)
            ELSE predict_response(det, rule_costs, m,
                     choose_final_price(rule_costs.totals.min, m.price,
                                        e.PRICE_PROVIDER, e.ALPHA))
        WithModel(rule_costs, h) ==
            IF h.raised # "" THEN Fault(h.raised, h.cache)
            ELSE Priced(rule_costs,
                        IF h.has
                        THEN predict_price_usd_from_detection(det, vehicle_type,
                                 RInt(rule_costs.totals.min), ImageShape,
                                 h.cache, file)
                        ELSE NoPrice(h.cache))
        WithRule(rule_costs) ==
            IF rule_costs.status # "ok" THEN Fault(rule_costs.raised, cache)
            ELSE WithModel(rule_costs, has_price_model(cache, file))
    IN WithRule(aggregate_costs_for_classes(det.classes, pm, vehicle_type,
                                            Some(det.areas), rules, e))

(* compare_ml_context passing the rule delta, as /predict passes the rule total *)
compare_ml_context_rule(rule_new_costs) == RInt(rule_new_costs.totals.min)

(* lines 121-129: the rule_price_usd context of the two ML calls of /compare *)
compare_ml_context(rule_new_costs) == RInt(0)

(* lines 130-131 *)
ml_delta_of(ml_before, ml_after) ==
    IF ml_before # None /\ ml_after # None
    THEN Some(RMax(RInt(0), RSub(ml_after[1], ml_before[1])))
    ELSE None

(* lines 142-155: the response, and with it the handler's locals          *)
(* expanded_new, areas_new, ml_before and ml_after                         *)
compare_response(summary, sel, rule_new_costs, mb, ma, ml_delta, d) ==
    [status |-> "ok", raised |-> "", cache |-> ma.cache,
     before_counts |-> summary.before_counts,
     after_counts |-> summary.after_counts,
     new_damage_counts |-> summary.new_damage_counts,
     expanded_new |-> sel.expanded_new,
     areas_new |-> sel.areas_new,
     new_damage_costs_rule |-> rule_new_costs,
     ml_before |-> mb.price, ml_after |-> ma.price,
     price |-> [provider |-> d.provider, ml_delta_usd |-> ml_delta,
                rule_delta_usd |-> rule_new_costs.totals.min,
                final_delta_usd |-> d.final]]

(* lines 100-155: POST /compare on the detections of the two images *)
compare(before, after, vehicle_type, pm, rules, e, cache, file) ==
    LET Decide(summary, sel, rule_new_costs, mb, ma, ml_delta) ==
            compare_response(summary, sel, rule_new_costs, mb, ma, ml_delta,
                choose_final_price(rule_new_costs.totals.min, ml_delta,
                                   e.PRICE_PROVIDER, e.ALPHA))
        After(summary, sel, rule_new_costs, mb, ma) ==
            IF ma.raised # "" THEN Fault(ma.raised, ma.cache)
            ELSE Decide(summary, sel, rule_new_costs, mb, ma, ml_delta_of(mb.price, ma.price))
        Before(summary, sel, rule_new_costs, h, mb) ==
            IF mb.raised # "" THEN Fault(mb.raised, mb.cache)
            ELSE After(summary, sel, rule_new_costs, mb,
                       IF h.has
                       THEN predict_price_usd_from_detection(after, vehicle_type,
                                compare_ml_context(rule_new_costs), ImageShape,
                                mb.cache, file)
                       ELSE NoPrice(mb.cache))
        WithModel(summary, sel, rule_new_costs, h) ==
            IF h.raised # "" THEN Fault(h.raised, h.cache)
            ELSE Before(summary, sel, rule_new_costs, h,
                        IF h.has
                        THEN predict_price_usd_from_detection(before, vehicle_type,
                                 compare_ml_context(rule_new_costs), ImageShape,
                                 h.cache, file)
                        ELSE NoPrice(h.cache))
        WithRule(summary, sel, rule_new_costs) ==
            IF rule_new_costs.status # "ok" THEN Fault(rule_new_costs.raised, cache)
            ELSE WithModel(summary, sel, rule_new_costs, has_price_model(cache, file))
        Selected(summary, sel) ==
            WithRule(summary, sel,
                     aggregate_costs_for_classes(sel.expanded_new, pm, vehicle_type,
                                                 Some(sel.areas_new), rules, e))
        Summarised(summary) ==
            IF summary.status # "ok" THEN Fault(summary.raised, cache)
            ELSE Selected(summary, select_new(after.classes, after.areas, 1,
                                              summary.new_damage_counts))
    IN Summarised(compare_before_after(before, after, pm, rules, e))

---------------------------------------------------------------------------
(* Configuration: the artifacts and the environment of the process *)

AREA_REF_DEFAULT == Rat(3, 20)
AREA_MIN_SCALE_DEFAULT == Rat(1, 4)
AREA_MAX_SCALE_DEFAULT == RInt(1)
COST_MULTIPLIER_DEFAULT == Rat(3, 5)
PRICE_BLEND_ALPHA_DEFAULT == Rat(3, 5)
LABOR_RATE_USD_DEFAULT == 95
PAINT_RATE_USD_DEFAULT == 120
MATERIALS_USD_DEFAULT == 50
FX_MMK_PER_USD_DEFAULT == 2100

(* The defaults of the os.environ.get calls.  AREA_GAMMA defaults to 0.7,  *)
(* an exponent strictly between 0 and 1: it is represented by 1/2.         *)
DefaultEnv ==
    [AREA_REF |-> AREA_REF_DEFAULT,
     AREA_MIN_SCALE |-> AREA_MIN_SCALE_DEFAULT,
     AREA_MAX_SCALE |-> AREA_MAX_SCALE_DEFAULT,
     AREA_GAMMA |-> 1,
     COST_MULTIPLIER |-> COST_MULTIPLIER_DEFAULT,
     LABOR_RATE_USD |-> LABOR_RATE_USD_DEFAULT,
     PAINT_RATE_USD |-> PAINT_RATE_USD_DEFAULT,
     MATERIALS_USD |-> MATERIALS_USD_DEFAULT,
     FX_MMK_PER_USD |-> FX_MMK_PER_USD_DEFAULT,
     PRICE_PROVIDER |-> "rule",
     ALPHA |-> PRICE_BLEND_ALPHA_DEFAULT]

(* Settings of the area knobs: the defaults, AREA_REF=0, AREA_GAMMA=2 with *)
(* a ceiling of 2, AREA_MIN_SCALE above AREA_MAX_SCALE, and AREA_GAMMA=-1. *)
AreaEnvs ==
    {DefaultEnv,
     [DefaultEnv EXCEPT !.AREA_REF = RInt(0)],
     [DefaultEnv EXCEPT !.AREA_GAMMA = 4, !.AREA_MAX_SCALE = RInt(2)],
     [DefaultEnv EXCEPT !.AREA_MIN_SCALE = RInt(1), !.AREA_MAX_SCALE = Rat(1, 4)],
     [DefaultEnv EXCEPT !.AREA_GAMMA = -2]}

(* Settings of PRICE_PROVIDER and PRICE_BLEND_ALPHA *)
PriceEnvs ==
    {DefaultEnv,
     [DefaultEnv EXCEPT !.PRICE_PROVIDER = "ml"],
     [DefaultEnv EXCEPT !.PRICE_PROVIDER = "hybrid"],
     [DefaultEnv EXCEPT !.PRICE_PROVIDER = "hybrid", !.ALPHA = RInt(0)],
     [DefaultEnv EXCEPT !.PRICE_PROVIDER = "hybrid", !.ALPHA = RInt(1)]}

(* cost_rules.json, flat: {"severe": {"per_item_usd": 800},                *)
(*   "minor": {"parts_usd": 100, "labor_h": 2, "paint_h": 1}}              *)
FlatRules ==
    JMap(<< <<T_severe, JMap(<< <<T_per_item_usd, JNum(800)>> >>)>>,
            <<T_minor, JMap(<< <<T_parts_usd, JNum(100)>>, <<T_labor_h, JNum(2)>>,
                               <<T_paint_h, JNum(1)>> >>)>> >>)

(* cost_rules.json, nested by vehicle type *)
NestedRules ==
    JMap(<< <<T_truck, JMap(<< <<T_severe, JMap(<< <<T_per_item_usd, JNum(1200)>> >>)>> >>)>>,
            <<T_car, FlatRules>> >>)

(* nested, the vehicle types capitalised as in a hand-written file *)
NestedRulesCased ==
    JMap(<< <<T_truck, JMap(<< <<T_severe, JMap(<< <<T_per_item_usd, JNum(1200)>> >>)>> >>)>>,
            <<T_Car, FlatRules>> >>)

(* nested, without a "car" entry *)
NestedRulesNoCar ==
    JMap(<< <<T_scooter, JMap(<< <<T_severe, JMap(<< <<T_per_item_usd, JNum(300)>> >>)>> >>)>>,
            <<T_truck, JMap(<< <<T_severe, JMap(<< <<T_per_item_usd, JNum(1200)>> >>)>> >>)>> >>)

(* "150,000 MMK - 500,000 MMK" *)
P_minor ==
    <<"1", "5", "0", ",", "0", "0", "0", " ", "M", "M", "K", " ", "EN",
    " ", "5", "0", "0", ",", "0", "0", "0", " ", "M", "M", "K">>
(* "500,000 MMK - 2,500,000+ MMK" *)
P_severe ==
    <<"5", "0", "0", ",", "0", "0", "0", " ", "M", "M", "K", " ", "EN",
    " ", "2", ",", "5", "0", "0", ",", "0", "0", "0", "+", " ", "M", "M",
    "K">>
(* "300,000 MMK" *)
P_moderate ==
    <<"3", "0", "0", ",", "0", "0", "0", " ", "M", "M", "K">>

(* car_damage_price.json *)
PriceMap == << <<T_minor, P_minor>>, <<T_moderate, P_moderate>>, <<T_severe, P_severe>> >>

(* the regressors a price_gbm.pkl may hold *)
ModelFiles ==
    {[kind |-> "absent", reg |-> NoReg],
     [kind |-> "corrupt", reg |-> NoReg],
     [kind |-> "empty", reg |-> NoReg],
     [kind |-> "model", reg |-> Regressor("ok", 100, 50, 1)],
     [kind |-> "model", reg |-> Regressor("ok", 250, -100, 0)],
     [kind |-> "model", reg |-> Regressor("raise", 0, 0, 0)],
     [kind |-> "model", reg |-> Regressor("nan", 0, 0, 0)]}

---------------------------------------------------------------------------
(* Inputs *)

DiffLabels == {T_severe, T_Severe, T_serve, T_minor_padded}
AggLabels == {T_severe, T_serve, T_minor_padded, T_dent}
ApiLabels == {T_severe, T_dent}
AreaVals == {Rat(-1, 4), Rat(1, 20), Rat(3, 2)}
VehicleTypes == {None, Some(T_truck)}
(* vehicle_type is a free query parameter of /predict and /compare *)
AnyVehicleTypes == {None, Some(T_truck), Some(T_truck_padded), Some(T_boat), Some(T_severe)}

(* the pieces a price-map text is made of: digits, the thousands comma,    *)
(* the three dashes, the plus, the blank and the currency marker           *)
PriceTokens ==
    {<<"1">>, <<"2">>, <<",">>, <<"-">>, <<"EN">>, <<"EM">>, <<"+">>, <<" ">>,
     <<"M", "M", "K">>}

RECURSIVE Flatten(_)
Flatten(pieces) == IF pieces = <<>> THEN <<>> ELSE pieces[1] \o Flatten(Tail(pieces))

(* the texts of the price map, and every text of up to MaxTokens pieces *)
PriceTexts ==
    {P_minor, P_severe, P_moderate}
        \cup {Flatten(pieces) : pieces \in SeqsUpTo(PriceTokens, MaxTokens)}

(* detect_from_numpy: one area ratio per detected box (lines 229-240) *)
AreaAt(i) == Rat(3 * i, 80)
Detections(labels, n) ==
    {[classes |-> c, areas |-> [i \in 1..Len(c) |-> AreaAt(i)]] : c \in SeqsUpTo(labels, n)}

(* detect_from_numpy gives one confidence per box *)
ConfAt(i) == Rat(2 * i + 1, 8)
Prefixes(f, n) == {[i \in 1..k |-> f[i]] : k \in 0..n}

(* detection dicts whose optional lists are absent, empty, shorter than    *)
(* the labels or aligned with them                                         *)
FeatLabels == {T_minor_padded, T_severe, T_dent}
FeatDetsOf(c) ==
    LET areas == [i \in 1..Len(c) |-> AreaAt(i)]
        confs == [i \in 1..Len(c) |-> ConfAt(i)]
    IN {[classes |-> c]}
       \cup {[classes |-> c, areas |-> a] : a \in Prefixes(areas, Len(c))}
       \cup {[classes |-> c, confidences |-> k] : k \in Prefixes(confs, Len(c))}
       \cup {[classes |-> c, confidences |-> k, areas |-> a] :
                 k \in Prefixes(confs, Len(c)), a \in Prefixes(areas, Len(c))}
FeatDets ==
    UNION {FeatDetsOf(c) : c \in SeqsUpTo(FeatLabels, MaxDet)}
    \cup {[annotated_image |-> <<480, 640>>]}
FeatVehicleTypes ==
    {None, Some(T_car), Some(T_Car), Some(T_truck), Some(T_motorcycle), Some(T_scooter),
     Some(T_boat), Some(T_severe)}
ImageShapes == {None, ImageShape, Some(<<0, 640>>)}
RulePrices == {RInt(0), Rat(1601, 2)}

---------------------------------------------------------------------------
(* The state machine *)

(* the requests that may be in flight together; one at rest *)
Requests == 1..MaxRequests
NoThread == [pc |-> "idle", model |-> None, result |-> None]

InitWith(rulesSet, envSet, fileSet) ==
    /\ cost_rules \in rulesSet
    /\ price_map = PriceMap
    /\ env \in envSet
    /\ model_file \in fileSet
    /\ MODEL_CACHE = None
    /\ call = [op |-> "none"]
    /\ ret = [status |-> "none"]
    /\ threads = [r \in Requests |-> NoThread]
    /\ loaded = <<>>

Config == <<cost_rules, price_map, env, model_file>>
Workers == <<threads, loaded>>

(* no call is in progress: the process waits for the next one *)
Idle == call.op = "none"

(* the caller has taken the result (or the exception) of the call *)
Return ==
    /\ ~Idle
    /\ call' = [op |-> "none"]
    /\ ret' = [status |-> "none"]
    /\ UNCHANGED <<Config, MODEL_CACHE, Workers>>

(* a direct call of ml.services.inference.aggregate_costs_for_classes *)
Aggregate(labels, vehicle_type, areas) ==
    /\ Idle
    /\ call' = [op |-> "aggregate", detected_classes |-> labels,
                vehicle_type |-> vehicle_type, areas |-> areas]
    /\ ret' = aggregate_costs_for_classes(labels, price_map, vehicle_type, areas,
                                          cost_rules, env)
    /\ UNCHANGED <<Config, MODEL_CACHE, Workers>>

(* app.py line 45: services.inference.aggregate_costs_for_classes *)
ServicesAggregate(labels) ==
    /\ Idle
    /\ call' = [op |-> "services_aggregate", detected_classes |-> labels]
    /\ ret' = services_aggregate_costs_for_classes(labels, price_map)
    /\ UNCHANGED <<Config, MODEL_CACHE, Workers>>

(* a direct call of ml.services.inference.compare_before_after *)
CompareBeforeAfter(before, after) ==
    /\ Idle
    /\ call' = [op |-> "compare_before_after", before |-> before, after |-> after]
    /\ ret' = compare_before_after(before, after, price_map, cost_rules, env)
    /\ UNCHANGED <<Config, MODEL_CACHE, Workers>>

(* app.py line 69: services.inference.compare_before_after *)
ServicesCompareBeforeAfter(before, after) ==
    /\ Idle
    /\ call' = [op |-> "services_compare_before_after", before |-> before, after |-> after]
    /\ ret' = services_compare_before_after(before, after, price_map)
    /\ UNCHANGED <<Config, MODEL_CACHE, Workers>>

(* a call of parse_price_range_to_min_max *)
ParsePriceRange(price_str) ==
    /\ Idle
    /\ call' = [op |-> "parse", price_str |-> price_str]
    /\ ret' = [status |-> "ok", raised |-> "",
               parsed |-> parse_price_range_to_min_max(price_str)]
    /\ UNCHANGED <<Config, MODEL_CACHE, Workers>>

(* a call of ml.services.features.compute_features *)
ComputeFeatures(det, vehicle_type, rule_price_usd, image_shape) ==
    LET Result(f) == [status |-> IF f.raised = "" THEN "ok" ELSE "raise",
                      raised |-> f.raised, feats |-> f.feats]
    IN /\ Idle
       /\ call' = [op |-> "features", det |-> det, vehicle_type |-> vehicle_type,
                   rule_price_usd |-> rule_price_usd, image_shape |-> image_shape]
       /\ ret' = Result(compute_features(det, vehicle_type, rule_price_usd, image_shape))
       /\ UNCHANGED <<Config, MODEL_CACHE, Workers>>

(* POST /predict *)
Predict(det, vehicle_type) ==
    /\ Idle
    /\ call' = [op |-> "predict", det |-> det, vehicle_type |-> vehicle_type]
    /\ ret' = predict(det, vehicle_type, price_map, cost_rules, env, MODEL_CACHE, model_file)
    /\ MODEL_CACHE' = ret'.cache
    /\ UNCHANGED <<Config, Workers>>

(* POST /compare *)
Compare(before, after, vehicle_type) ==
    /\ Idle
    /\ call' = [op |-> "compare", before |-> before, after |-> after,
                vehicle_type |-> vehicle_type]
    /\ ret' = compare(before, after, vehicle_type, price_map, cost_rules, env,
                      MODEL_CACHE, model_file)
    /\ MODEL_CACHE' = ret'.cache
    /\ UNCHANGED <<Config, Workers>>

(* The differencer and the /compare selection, over label lists *)
InitDiff == InitWith({Some(FlatRules)}, {DefaultEnv}, {[kind |-> "absent", reg |-> NoReg]})
NextDiff ==
    \/ Return
    \/ /\ Idle
       /\ \E b \in Detections(DiffLabels, MaxBefore), a \in Detections(DiffLabels, MaxAfter) :
             \/ CompareBeforeAfter(b, a)
             \/ ServicesCompareBeforeAfter(b, a)
             \/ Compare(b, a, None)
SpecDiff == InitDiff /\ [][NextDiff]_vars

(* The aggregators, over rules, area knobs, labels and area lists *)
InitAgg ==
    \/ InitWith({None, Some(NestedRules)}, {DefaultEnv}, {[kind |-> "absent", reg |-> NoReg]})
    \/ InitWith({Some(FlatRules)}, AreaEnvs, {[kind |-> "absent", reg |-> NoReg]})
NextAgg ==
    \/ Return
    \/ /\ Idle
       /\ \E labels \in SeqsUpTo(AggLabels, MaxLabels) :
             \/ \E vt \in VehicleTypes,
                   areas \in {None} \cup {Some(x) : x \in SeqsUpTo(AreaVals, MaxLabels)} :
                   Aggregate(labels, vt, areas)
             \/ ServicesAggregate(labels)
SpecAgg == InitAgg /\ [][NextAgg]_vars

(* The pricing service, over model files and pricing modes *)
InitApi == InitWith({Some(FlatRules)}, PriceEnvs, ModelFiles)
NextApi ==
    \/ Return
    \/ /\ Idle
       /\ \/ \E det \in Detections(ApiLabels, MaxDet), vt \in VehicleTypes : Predict(det, vt)
          \/ \E b \in Detections(ApiLabels, MaxDet), a \in Detections(ApiLabels, MaxDet) :
                Compare(b, a, None)
SpecApi == InitApi /\ [][NextApi]_vars

(* The area lists: given to the aggregator, and built by /compare *)
InitAreas ==
    InitWith({Some(FlatRules)},
             {DefaultEnv, [DefaultEnv EXCEPT !.AREA_GAMMA = 4, !.AREA_MAX_SCALE = RInt(2)]},
             {[kind |-> "absent", reg |-> NoReg]})
NextAreas ==
    \/ Return
    \/ /\ Idle
       /\ \/ \E labels \in SeqsUpTo(AggLabels, MaxLabels),
                areas \in {None} \cup {Some(x) : x \in SeqsUpTo(AreaVals, MaxLabels)} :
                Aggregate(labels, None, areas)
          \/ \E b \in Detections(DiffLabels, MaxBefore), a \in Detections(DiffLabels, MaxAfter) :
                Compare(b, a, None)
SpecAreas == InitAreas /\ [][NextAreas]_vars

(* The rule resolver, over rules files and vehicle types *)
InitRules ==
    InitWith({Some(FlatRules), Some(NestedRules), Some(NestedRulesCased),
              Some(NestedRulesNoCar)},
             {DefaultEnv}, {[kind |-> "absent", reg |-> NoReg]})
NextRules ==
    \/ Return
    \/ /\ Idle
       /\ \E labels \in SeqsUpTo(AggLabels, MaxLabels), vt \in AnyVehicleTypes :
             Aggregate(labels, vt, None)
SpecRules == InitRules /\ [][NextRules]_vars

(* The feature builder, over detection dicts and contexts *)
InitFeat == InitWith({None}, {DefaultEnv}, {[kind |-> "absent", reg |-> NoReg]})
NextFeat ==
    \/ Return
    \/ /\ Idle
       /\ \E det \in FeatDets, vt \in FeatVehicleTypes, price \in RulePrices,
             shape \in ImageShapes :
             ComputeFeatures(det, vt, price, shape)
SpecFeat == InitFeat /\ [][NextFeat]_vars

(* load_price_model, lines 30-42, run by concurrent requests one statement *)
(* at a time.  An object is [id, reg]: id tells two loads of the same file *)
(* apart.                                                                  *)

(* a request calls load_price_model (through has_price_model or            *)
(* predict_price_usd_from_detection)                                       *)
LoadCall(r) ==
    /\ threads[r].pc = "idle"
    /\ threads' = [threads EXCEPT ![r].pc = "l32"]
    /\ UNCHANGED <<Config, MODEL_CACHE, call, ret, loaded>>

(* lines 32-33: if _MODEL_CACHE is not None: return _MODEL_CACHE *)
LoadCheck(r) ==
    /\ threads[r].pc = "l32"
    /\ threads' = IF MODEL_CACHE # None
                  THEN [threads EXCEPT ![r].pc = "done", ![r].result = MODEL_CACHE]
                  ELSE [threads EXCEPT ![r].pc = "l35"]
    /\ UNCHANGED <<Config, MODEL_CACHE, call, ret, loaded>>

(* lines 34-36: if not path.exists(): return None *)
LoadExists(r) ==
    /\ threads[r].pc = "l35"
    /\ threads' = IF model_file.kind = "absent"
                  THEN [threads EXCEPT ![r].pc = "done", ![r].result = None]
                  ELSE [threads EXCEPT ![r].pc = "l37"]
    /\ UNCHANGED <<Config, MODEL_CACHE, call, ret, loaded>>

(* lines 37-39: payload = joblib.load(path); model = payload.get("model") *)
LoadPayload(r) ==
    LET Built(obj) ==
            /\ threads' = [threads EXCEPT ![r].pc = "l40", ![r].model = Some(obj)]
            /\ loaded' = Append(loaded, obj)
    IN /\ threads[r].pc = "l37"
       /\ Built([id |-> Len(loaded) + 1, reg |-> model_file.reg])
       /\ UNCHANGED <<Config, MODEL_CACHE, call, ret>>

(* lines 40-41: _MODEL_CACHE = model *)
LoadStore(r) ==
    /\ threads[r].pc = "l40"
    /\ MODEL_CACHE' = threads[r].model
    /\ threads' = [threads EXCEPT ![r].pc = "l42"]
    /\ UNCHANGED <<Config, call, ret, loaded>>

(* line 42: return _MODEL_CACHE *)
LoadReturn(r) ==
    /\ threads[r].pc = "l42"
    /\ threads' = [threads EXCEPT ![r].pc = "done", ![r].result = MODEL_CACHE]
    /\ UNCHANGED <<Config, MODEL_CACHE, call, ret, loaded>>

(* the request ends *)
LoadDone(r) ==
    /\ threads[r].pc = "done"
    /\ threads' = [threads EXCEPT ![r] = NoThread]
    /\ UNCHANGED <<Config, MODEL_CACHE, call, ret, loaded>>

(* ml/train_price_gbm.py writes ml/models/price_gbm.pkl *)
InstallModel ==
    /\ model_file.kind = "absent"
    /\ model_file' \in {f \in ModelFiles : f.kind = "model" /\ f.reg.behaviour = "ok"}
    /\ UNCHANGED <<cost_rules, price_map, env, MODEL_CACHE, call, ret, threads, loaded>>

(* Concurrent requests on the model cache *)
InitLoad ==
    InitWith({Some(FlatRules)}, {DefaultEnv},
             {f \in ModelFiles : f.kind = "absent" \/ (f.kind = "model" /\ f.reg.behaviour = "ok")})
NextLoad ==
    \/ InstallModel
    \/ \E r \in Requests :
          \/ LoadCall(r)
          \/ LoadCheck(r)
          \/ LoadExists(r)
          \/ LoadPayload(r)
          \/ LoadStore(r)
          \/ LoadReturn(r)
          \/ LoadDone(r)
SpecLoad == InitLoad /\ [][NextLoad]_vars

(* The price-range parser, over texts *)
InitParse == InitWith({None}, {DefaultEnv}, {[kind |-> "absent", reg |-> NoReg]})
NextParse ==
    \/ Return
    \/ /\ Idle
       /\ \E price_str \in PriceTexts : ParsePriceRange(price_str)
SpecParse == InitParse /\ [][NextParse]_vars

---------------------------------------------------------------------------
(* Properties.  Each is stated over the last call and its result; the      *)
(* counting below is done from the call's arguments, not by the operators  *)
(* of the engine.                                                          *)

(* the sum of f over the keys S *)
RECURSIVE SumOver(_, _)
SumOver(f, S) ==
    IF S = {} THEN 0
    ELSE LET x == CHOOSE y \in S : TRUE IN f[x] + SumOver(f, S \ {x})

(* how many times the raw label c occurs in labels *)
Occurrences(labels, c) == Cardinality({i \in 1..Len(labels) : labels[i] = c})

(* how many labels have the normalized key k *)
NormOccurrences(labels, k) ==
    Cardinality({i \in 1..Len(labels) : normalize_class_key(labels[i]) = k})

NormKeys(labels) == {normalize_class_key(labels[i]) : i \in 1..Len(labels)}

(* the sum over the classes S of min_each * count *)
RECURSIVE CostSum(_, _)
CostSum(per_class_costs, S) ==
    IF S = {} THEN RInt(0)
    ELSE LET c == CHOOSE x \in S : TRUE
         IN RAdd(RMul(per_class_costs[c].min_each, RInt(per_class_costs[c].count)),
                 CostSum(per_class_costs, S \ {c}))

(* the elements s[i], i >= from, whose keep[i] is TRUE, in order *)
RECURSIVE Restrict(_, _, _)
Restrict(s, from, keep) ==
    IF from > Len(s) THEN <<>>
    ELSE (IF keep[from] THEN <<s[from]>> ELSE <<>>) \o Restrict(s, from + 1, keep)

(* the first quota[c] occurrences of every label c, in order *)
FirstOccurrences(labels, quota) ==
    Restrict(labels, 1,
             [i \in 1..Len(labels) |->
                 Occurrences(SubSeq(labels, 1, i), labels[i]) <= CountGet(quota, labels[i])])

DifferCalls == {"compare_before_after", "services_compare_before_after", "compare"}
AggregateCalls == {"aggregate", "services_aggregate"}
ApiCalls == {"predict", "compare"}

(* C1: for every pair of before/after label lists the differencer returns, *)
(* for every class c, new_damage_counts[c] = after_counts[c] -             *)
(* before_counts[c] when that difference is positive (a missing count      *)
(* reads as 0) and no entry for c otherwise; no entry is zero or negative. *)
C1_NewDamageCountsArePositiveDeltas ==
    (call.op \in DifferCalls /\ ret.status = "ok") =>
        /\ \A c \in DOMAIN ret.new_damage_counts : ret.new_damage_counts[c] > 0
        /\ DOMAIN ret.new_damage_counts \subseteq
               DOMAIN ret.before_counts \cup DOMAIN ret.after_counts
        /\ \A c \in DOMAIN ret.before_counts \cup DOMAIN ret.after_counts \cup DiffLabels :
              LET delta == CountGet(ret.after_counts, c) - CountGet(ret.before_counts, c)
              IN IF delta > 0
                 THEN c \in DOMAIN ret.new_damage_counts /\ ret.new_damage_counts[c] = delta
                 ELSE c \notin DOMAIN ret.new_damage_counts

(* one class rose by two and another, seen only before, is left out *)
C1_Witness ==
    /\ call.op = "compare_before_after"
    /\ call.before.classes = <<T_serve>>
    /\ call.after.classes = <<T_severe, T_severe>>
    /\ ret.status = "ok"
    /\ DOMAIN ret.new_damage_counts = {T_severe}
    /\ ret.new_damage_counts[T_severe] = 2

(* C2: in /compare, for every class c exactly new_damage_counts[c] "after" *)
(* detections of class c, the first seen in detection order, are selected  *)
(* for pricing: the selected list is as long as the sum of the deltas and  *)
(* its per-class tally is new_damage_counts, whatever raw labels (case,    *)
(* surrounding whitespace, alias) the detector emits.                      *)
C2_CompareSelectsExactlyDeltaDetections ==
    (call.op = "compare" /\ ret.status = "ok") =>
        /\ Len(ret.expanded_new) =
               SumOver(ret.new_damage_counts, DOMAIN ret.new_damage_counts)
        /\ \A c \in DOMAIN ret.new_damage_counts :
               Occurrences(ret.expanded_new, c) = ret.new_damage_counts[c]
        /\ ret.expanded_new = FirstOccurrences(call.after.classes, ret.new_damage_counts)

(* C3: the differencer's before_counts, after_counts and new_damage_counts *)
(* are keyed by the normalized class key: two raw labels are one class     *)
(* exactly when normalize_class_key maps them to one key, as in the counts *)
(* of aggregate_costs_for_classes (before ["severe"], after ["serve"] is   *)
(* no new damage).                                                         *)
C3_DifferencerCountsNormalizedKeys ==
    (call.op = "compare_before_after" /\ ret.status = "ok") =>
        /\ DOMAIN ret.before_counts = NormKeys(call.before.classes)
        /\ DOMAIN ret.after_counts = NormKeys(call.after.classes)
        /\ \A k \in DOMAIN ret.before_counts :
               ret.before_counts[k] = NormOccurrences(call.before.classes, k)
        /\ \A k \in DOMAIN ret.after_counts :
               ret.after_counts[k] = NormOccurrences(call.after.classes, k)
        /\ \A k \in NormKeys(call.before.classes) \cup NormKeys(call.after.classes) :
               LET delta == NormOccurrences(call.after.classes, k)
                            - NormOccurrences(call.before.classes, k)
               IN IF delta > 0
                  THEN k \in DOMAIN ret.new_damage_counts /\ ret.new_damage_counts[k] = delta
                  ELSE k \notin DOMAIN ret.new_damage_counts

(* C4, as stated: totals.min equals the sum over the classes of            *)
(* per_class_costs of min_each * count, on the rules path, the price-range *)
(* path and in the earlier aggregator.                                     *)
C4_TotalsMinIsTheExactSum ==
    (call.op \in AggregateCalls /\ ret.status = "ok") =>
        RInt(ret.totals.min) = CostSum(ret.per_class_costs, DOMAIN ret.per_class_costs)

(* C4, as it holds: totals.min of aggregate_costs_for_classes is the       *)
(* integer nearest to the sum over the classes of per_class_costs of       *)
(* min_each * count (the even one when two are equally near); in the       *)
(* earlier aggregator of src/services, totals.min is that sum exactly.     *)
C4_TotalsMinIsTheRoundedSum ==
    (call.op \in AggregateCalls /\ ret.status = "ok") =>
        LET sum == CostSum(ret.per_class_costs, DOMAIN ret.per_class_costs)
            off == RSub(RInt(ret.totals.min), sum)
        IN IF call.op = "services_aggregate" THEN off = RInt(0)
           ELSE /\ RLe(off, Rat(1, 2))
                /\ RLe(Rat(-1, 2), off)
                /\ (off \in {Rat(1, 2), Rat(-1, 2)} => ret.totals.min % 2 = 0)

(* area-scaled costs on the rules path whose sum is not a whole number *)
C4_Witness ==
    /\ call.op = "aggregate"
    /\ ret.status = "ok"
    /\ cost_rules # None
    /\ areas_aligned(call.detected_classes, call.areas)
    /\ CostSum(ret.per_class_costs, DOMAIN ret.per_class_costs).d # 1

(* C5: the counts of an aggregation sum to the number of detected labels:  *)
(* every detection is tallied once (in aggregate_costs_for_classes of      *)
(* src/ml, under its normalized key).                                      *)
C5_CountsSumToNumberOfLabels ==
    (call.op \in AggregateCalls /\ ret.status = "ok") =>
        /\ SumOver(ret.counts, DOMAIN ret.counts) = Len(call.detected_classes)
        /\ call.op = "aggregate" =>
               /\ DOMAIN ret.counts = NormKeys(call.detected_classes)
               /\ \A k \in DOMAIN ret.counts :
                      ret.counts[k] = NormOccurrences(call.detected_classes, k)

(* two raw labels of one class are tallied under one key *)
C5_Witness ==
    /\ call.op = "aggregate"
    /\ call.detected_classes = <<T_serve, T_severe>>
    /\ ret.status = "ok"
    /\ DOMAIN ret.counts = {T_severe}
    /\ ret.counts[T_severe] = 2

(* the class key k has a (truthy) rule in the selected rules, or, with no  *)
(* rules configured, an entry in the price map                             *)
HasPrice(k) ==
    IF cost_rules # None /\ Truthy(cost_rules[1])
    THEN LET rule == NormGet(resolve_rules(cost_rules[1], call.vehicle_type).selected.items, k)
         IN rule # None /\ Truthy(rule[1])
    ELSE NormGet(price_map, k) # None

(* C6: a detected class with no matching rule (rules path) or price-map    *)
(* entry (price-range path) is never an error, adds nothing to the totals, *)
(* has no entry in per_class_costs and keeps its full tally in counts; a   *)
(* class has an entry in per_class_costs only if it is in counts and has a *)
(* rule or price, and that entry's count is counts[c].  "Adds nothing" is  *)
(* stated against the same call with the unpriced detections removed.      *)
C6_UnpricedClassesAreSkippedNotDropped ==
    call.op = "aggregate" =>
        LET labels == call.detected_classes
            keep == [i \in 1..Len(labels) |-> HasPrice(normalize_class_key(labels[i]))]
            priced_only ==
                aggregate_costs_for_classes(
                    Restrict(labels, 1, keep), price_map, call.vehicle_type,
                    IF areas_aligned(labels, call.areas)
                    THEN Some(Restrict(call.areas[1], 1, keep)) ELSE None,
                    cost_rules, env)
        IN /\ ret.status = priced_only.status
           /\ (\A i \in 1..Len(labels) : ~keep[i]) => ret.status = "ok"
           /\ ret.status = "ok" =>
                 /\ ret.totals = priced_only.totals
                 /\ \A k \in NormKeys(labels) :
                        /\ k \in DOMAIN ret.counts
                        /\ ret.counts[k] = NormOccurrences(labels, k)
                        /\ k \in DOMAIN ret.per_class_costs <=> HasPrice(k)
                 /\ \A c \in DOMAIN ret.per_class_costs :
                        /\ c \in DOMAIN ret.counts
                        /\ HasPrice(c)
                        /\ ret.per_class_costs[c].count = ret.counts[c]

(* an unpriced class next to a priced one *)
C6_Witness ==
    /\ call.op = "aggregate"
    /\ call.detected_classes = <<T_dent, T_severe>>
    /\ ret.status = "ok"
    /\ T_dent \in DOMAIN ret.counts
    /\ ret.counts[T_dent] = 1
    /\ DOMAIN ret.per_class_costs = {T_severe}

(* the decision table of the price selector *)
PriceDecision(mode, alpha, ml, rule_total, provider, final) ==
    /\ (mode = "rule" \/ ml = None) => (provider = "rule" /\ final = RInt(rule_total))
    /\ (mode = "ml" /\ ml # None) => (provider = "ml" /\ final = ml[1])
    /\ (mode = "hybrid" /\ ml # None) =>
           /\ provider = "hybrid"
           /\ final = RAdd(RMul(alpha, ml[1]), RMul(RSub(RInt(1), alpha), RInt(rule_total)))
           /\ alpha = RInt(0) => final = RInt(rule_total)
           /\ alpha = RInt(1) => final = ml[1]
    /\ ml = None => provider \notin {"ml", "hybrid"}

(* C7: in /predict and /compare, provider is "rule" and the final price    *)
(* the rule total when the mode is rule or the ML price is None; provider  *)
(* is "ml" and the final price the ML price when the mode is ml and ML is  *)
(* available; provider is "hybrid" and the final price alpha*ml +          *)
(* (1-alpha)*rule when the mode is hybrid and ML is available, so that     *)
(* alpha = 0 gives the rule total and alpha = 1 the ML price; provider is  *)
(* never "ml" or "hybrid" when the ML price is null.                       *)
C7_PriceDecision ==
    /\ (call.op = "predict" /\ ret.status = "ok") =>
           PriceDecision(env.PRICE_PROVIDER, env.ALPHA, ret.price.ml_usd,
                         ret.price.rule_usd, ret.price.provider, ret.price.final_usd)
    /\ (call.op = "compare" /\ ret.status = "ok") =>
           PriceDecision(env.PRICE_PROVIDER, env.ALPHA, ret.price.ml_delta_usd,
                         ret.price.rule_delta_usd, ret.price.provider,
                         ret.price.final_delta_usd)

(* a hybrid price strictly between an ML price and a different rule total *)
C7_Witness ==
    /\ call.op = "predict"
    /\ ret.status = "ok"
    /\ env.ALPHA = Rat(3, 5)
    /\ ret.price.provider = "hybrid"
    /\ ret.price.ml_usd # None
    /\ RLt(RInt(ret.price.rule_usd), ret.price.final_usd)
    /\ RLt(ret.price.final_usd, ret.price.ml_usd[1])

(* the model file is missing or unreadable, or its regressor raises or     *)
(* returns NaN                                                             *)
ModelFails ==
    \/ model_file.kind \in {"absent", "corrupt"}
    \/ model_file.kind = "model" /\ model_file.reg.behaviour \in {"raise", "nan"}

(* C8: a missing or erroring regression model never faults a pricing       *)
(* request: with the model file absent or failing to load, or the model    *)
(* raising in predict or predicting a non-finite or negative value, the ML *)
(* price is None and the request completes with provider "rule" and the    *)
(* rule total as its final price.                                          *)
C8_ModelFailureNeverFaults ==
    call.op \in ApiCalls =>
        /\ ret.status = "ok"
        /\ (call.op = "predict" /\ ret.price.ml_usd # None) =>
               RLe(RInt(0), ret.price.ml_usd[1])
        /\ (call.op = "predict" /\ ModelFails) =>
               /\ ret.price.ml_usd = None
               /\ ret.price.provider = "rule"
               /\ ret.price.final_usd = RInt(ret.price.rule_usd)
        /\ (call.op = "compare" /\ ModelFails) =>
               /\ ret.price.ml_delta_usd = None
               /\ ret.price.provider = "rule"
               /\ ret.price.final_delta_usd = RInt(ret.price.rule_delta_usd)

(* the ML price of a detection set in the rule_price_usd = 0.0 context:    *)
(* the regressor's value at n_boxes boxes, None when there is no usable    *)
(* model or the value is NaN or negative                                   *)
MlPriceAtZeroRule(det) ==
    IF model_file.kind # "model" \/ model_file.reg.behaviour # "ok" THEN None
    ELSE IF model_file.reg.bias + model_file.reg.w_n * Len(det.classes) < 0 THEN None
    ELSE Some(RInt(model_file.reg.bias + model_file.reg.w_n * Len(det.classes)))

C10_AreaScaleIsBoundedAndMonotone ==
    (/\ call.op = "aggregate"
     /\ cost_rules # None
     /\ Len(call.detected_classes) = 1
     /\ areas_aligned(call.detected_classes, call.areas)
     /\ HasPrice(normalize_class_key(call.detected_classes[1]))) =>
        LET k == normalize_class_key(call.detected_classes[1])
            CostAt(areas) ==
                aggregate_costs_for_classes(call.detected_classes, price_map,
                                            call.vehicle_type, areas, cost_rules, env)
            base_each == CostAt(None).per_class_costs[k].min_each
        IN /\ ret.status = "ok"
           /\ RLe(RMul(base_each, env.AREA_MIN_SCALE), ret.per_class_costs[k].min_each)
           /\ RLe(ret.per_class_costs[k].min_each, RMul(base_each, env.AREA_MAX_SCALE))
           /\ \A a2 \in AreaVals :
                  RLe(call.areas[1][1], a2) =>
                      /\ CostAt(Some(<<a2>>)).status = "ok"
                      /\ RLe(ret.per_class_costs[k].min_each,
                             CostAt(Some(<<a2>>)).per_class_costs[k].min_each)

(* the sum over the detections i in I of the cost of detection i priced    *)
(* alone with its own area                                                 *)
RECURSIVE OwnAreaCost(_, _, _)
OwnAreaCost(labels, areas, I) ==
    IF I = {} THEN RInt(0)
    ELSE LET i == CHOOSE x \in I : TRUE
             alone == aggregate_costs_for_classes(<<labels[i]>>, price_map, call.vehicle_type,
                                                  Some(<<areas[i]>>), cost_rules, env)
         IN RAdd(alone.per_class_costs[normalize_class_key(labels[i])].min_each,
                 OwnAreaCost(labels, areas, I \ {i}))

(* result prices every priced detection of labels by its own area *)
EachScaledByOwnArea(labels, areas, result) ==
    LET priced == {i \in 1..Len(labels) : HasPrice(normalize_class_key(labels[i]))}
        Alone(i) == aggregate_costs_for_classes(<<labels[i]>>, price_map, call.vehicle_type,
                                                Some(<<areas[i]>>), cost_rules, env)
    IN /\ result.status = "ok" <=> \A i \in priced : Alone(i).status = "ok"
       /\ result.status = "ok" =>
             \A k \in DOMAIN result.per_class_costs :
                 RMul(result.per_class_costs[k].min_each,
                      RInt(result.per_class_costs[k].count))
                     = OwnAreaCost(labels, areas,
                                   {i \in priced : normalize_class_key(labels[i]) = k})

(* C11: an areas list whose length differs from the label list is never    *)
(* partially zipped: the result is exactly that of the call without areas, *)
(* every detection of a priced class at the unscaled base_each; when the   *)
(* lengths match, each detection is scaled by its own area, the i-th area  *)
(* going to the i-th label's class and to no other.  The list /compare     *)
(* builds for the selected new-damage detections has one area per selected *)
(* detection, its own, and is priced the same way.                         *)
C11_AreasAreZippedWhollyOrNotAtAll ==
    /\ call.op = "aggregate" =>
           IF areas_aligned(call.detected_classes, call.areas)
           THEN EachScaledByOwnArea(call.detected_classes, call.areas[1], ret)
           ELSE ret = aggregate_costs_for_classes(call.detected_classes, price_map,
                                                  call.vehicle_type, None, cost_rules, env)
    /\ (call.op = "compare" /\ ret.status = "ok") =>
           /\ Len(ret.areas_new) = Len(ret.expanded_new)
           /\ \A j \in 1..Len(ret.expanded_new) :
                  \E i \in 1..Len(call.after.classes) :
                      /\ call.after.classes[i] = ret.expanded_new[j]
                      /\ call.after.areas[i] = ret.areas_new[j]
           /\ EachScaledByOwnArea(ret.expanded_new, ret.areas_new, ret.new_damage_costs_rule)

(* two classes, each detection scaled by its own area and not the other's *)
C11_Witness ==
    /\ call.op = "aggregate"
    /\ call.detected_classes = <<T_severe, T_minor_padded>>
    /\ call.areas = Some(<<Rat(-1, 4), Rat(3, 2)>>)
    /\ env = DefaultEnv
    /\ ret.status = "ok"
    /\ ret.per_class_costs[T_severe].min_each = RInt(120)
    /\ ret.per_class_costs[T_minor].min_each = RInt(276)

(* every integer of a text, left to right: its maximal runs of digits *)
RECURSIVE AllInts(_, _)
AllInts(s, i) ==
    IF i > Len(s) THEN <<>>
    ELSE IF s[i] \in DigitChars /\ (i = 1 \/ s[i - 1] \notin DigitChars)
         THEN <<DigitRun(SubSeq(s, i, Len(s)), 0)>> \o AllInts(s, i + 1)
         ELSE AllInts(s, i + 1)

(* C12: parse_price_range_to_min_max strips the currency marker and the    *)
(* thousands separators and takes all the integers of the text: none gives *)
(* (0, null, flag), one gives (value, null, true) with or without a "+",   *)
(* two or more give (first, second, flag); flag is true exactly when the   *)
(* text holds a "+".  "150,000 MMK - 500,000 MMK" gives (150000, 500000,   *)
(* false), "500,000 MMK - 2,500,000+ MMK" gives (500000, 2500000, true).   *)
C12_ParserTakesAllIntegers ==
    call.op = "parse" =>
        LET ints == AllInts(Replace(Replace(call.price_str, <<"M", "M", "K">>, <<>>),
                                    <<",">>, <<>>), 1)
            flag == "+" \in Range(call.price_str)
        IN ret.parsed =
               (IF ints = <<>> THEN [min |-> 0, max |-> None, has_plus |-> flag]
                ELSE IF Len(ints) = 1 THEN [min |-> ints[1], max |-> None, has_plus |-> TRUE]
                ELSE [min |-> ints[1], max |-> Some(ints[2]), has_plus |-> flag])

(* some top-level key of the configured rules normalizes to a severity *)
RulesLookFlat ==
    {normalize_class_key(k) : k \in Keys(cost_rules[1].items)} \cap SeverityLikeKeys # {}

(* the result of the call when the mapping selected is the rules given *)
PricedWith(selected) ==
    with_rules(call.detected_classes, per_class_counts_of(call.detected_classes),
               [raised |-> "", selected |-> selected], call.areas, env)

(* C13: rules whose top-level keys look like severities (they intersect    *)
(* {minor, moderate, severe}) are used as they are for every value of the  *)
(* optional vehicle_type, also one that normalizes to a top-level key of   *)
(* the flat rules.                                                         *)
C13_FlatRulesAreUsedAsIs ==
    (call.op = "aggregate" /\ cost_rules # None /\ RulesLookFlat) =>
        ret = PricedWith(cost_rules[1])

(* the mapping the nested resolution is to select: the one under the       *)
(* normalized vehicle type, else the one whose key normalizes to "car",    *)
(* else the first nested mapping                                           *)
NestedSelection ==
    LET items == cost_rules[1].items
        byVt == IF call.vehicle_type = None THEN None
                ELSE DictGet(items, normalize_class_key(call.vehicle_type[1]))
        cars == {i \in 1..Len(items) : normalize_class_key(items[i][1]) = T_car}
    IN IF byVt # None /\ IsDict(byVt[1]) THEN byVt[1]
       ELSE IF cars # {} THEN items[CHOOSE i \in cars : TRUE][2]
       ELSE FirstDict(items, cost_rules[1])

(* C14: for vehicle-nested rules, a supplied vehicle_type that normalizes  *)
(* to a key present with a nested mapping selects that mapping; otherwise, *)
(* no top-level key normalizing to a severity, the "car" sub-mapping is    *)
(* selected when a top-level key normalizes to "car", else the first       *)
(* nested mapping; resolution never fails, whatever the letter case or     *)
(* padding of the vehicle-type keys.                                       *)
C14_NestedRulesResolveAndNeverFail ==
    (call.op = "aggregate" /\ cost_rules # None /\ ~RulesLookFlat) =>
        /\ ret.status = "ok"
        /\ ret = PricedWith(NestedSelection)

(* the calls of compute_features, their lists and the fields of the result *)
FeatureCalls == call.op = "features"
CallClasses == DetGet(call.det, "classes")
CallAreas == DetGet(call.det, "areas")
CallConfs == DetGet(call.det, "confidences")
F(name) == ret.feats[CHOOSE i \in 1..Len(FEATURE_NAMES) : FEATURE_NAMES[i] = name]
AreaFields ==
    {"area_sum", "area_mean", "area_max", "area_std",
     "area_minor_sum", "area_moderate_sum", "area_severe_sum"}
ConfFields == {"conf_mean", "conf_max", "conf_std"}
CountFields == {"n_boxes", "cnt_minor", "cnt_moderate", "cnt_severe"}

(* C15: compute_features returns, for every input, a vector of the fixed   *)
(* declared length: 25 dimensions, one per named field of FEATURE_NAMES.   *)
C15_VectorHasTheDeclaredLength ==
    FeatureCalls =>
        /\ ret.status = "ok"
        /\ Len(ret.feats) = Len(FEATURE_NAMES)
        /\ Len(ret.feats) = 25

(* the image height and width the context of the call gives *)
ContextShape ==
    IF call.image_shape # None THEN call.image_shape[1]
    ELSE IF "annotated_image" \in DOMAIN call.det THEN call.det.annotated_image
    ELSE <<0, 0>>

(* the one-hot fields with the vehicle type each stands for *)
OneHotFields ==
    {<<"vt_car", T_car>>, <<"vt_truck", T_truck>>, <<"vt_motorcycle", T_motorcycle>>,
     <<"vt_scooter", T_scooter>>, <<"vt_boat", T_boat>>}
CallVehicle ==
    normalize_class_key(IF call.vehicle_type = None THEN <<>> ELSE call.vehicle_type[1])

ZeroDetections ==
    FeatureCalls /\ CallClasses = <<>> /\ CallAreas = <<>> /\ CallConfs = <<>>

(* C16: with zero detections compute_features returns without error, each *)
(* statistic field is 0.0, and img_w, img_h, img_area, aspect_ratio (w/h   *)
(* when h > 0, else 0.0), rule_price_usd and the one-hot carry the         *)
(* context: exactly one 1.0, at its own field, for a vehicle type among    *)
(* car, truck, motorcycle, scooter and boat, and all 0.0 for an absent or  *)
(* unrecognized type.                                                      *)
C16_ZeroDetectionsGiveContextOnly ==
    ZeroDetections =>
        /\ ret.status = "ok"
        /\ \A name \in AreaFields \cup ConfFields \cup CountFields : F(name) = RInt(0)
        /\ F("img_w") = RInt(ContextShape[2])
        /\ F("img_h") = RInt(ContextShape[1])
        /\ F("img_area") = RInt(ContextShape[1] * ContextShape[2])
        /\ F("aspect_ratio") = IF ContextShape[1] > 0
                               THEN Rat(ContextShape[2], ContextShape[1]) ELSE RInt(0)
        /\ F("rule_price_usd") = call.rule_price_usd
        /\ \A p \in OneHotFields : F(p[1]) = RInt(IF CallVehicle = p[2] THEN 1 ELSE 0)
        /\ Cardinality({p \in OneHotFields : F(p[1]) = RInt(1)})
             = IF CallVehicle \in {p[2] : p \in OneHotFields} THEN 1 ELSE 0

(* an empty detection of a boat, with an image shape and a rule price *)
C16_Witness ==
    /\ ZeroDetections
    /\ ret.status = "ok"
    /\ call.vehicle_type = Some(T_boat)
    /\ call.image_shape = ImageShape
    /\ F("vt_boat") = RInt(1)
    /\ F("aspect_ratio") = Rat(4, 3)
    /\ F("rule_price_usd") = Rat(1601, 2)

(* the number of labels of the call that normalize to a severity *)
LabelsOf(severity) ==
    Cardinality({i \in 1..Len(CallClasses) : normalize_class_key(CallClasses[i]) = severity})

(* C18: compute_features completes without error when the optional        *)
(* per-detection lists are absent, empty or shorter than the label list:   *)
(* with n >= 1 labels and no area ratios the area statistics and the       *)
(* per-severity area sums are 0.0, likewise the confidence statistics      *)
(* without confidences, and n_boxes and the severity counts are those of   *)
(* the labels.                                                             *)
C18_MissingListsGiveZeroStatistics ==
    (/\ FeatureCalls
     /\ Len(CallClasses) >= 1
     /\ Len(CallAreas) <= Len(CallClasses)
     /\ Len(CallConfs) <= Len(CallClasses)) =>
        /\ ret.status = "ok"
        /\ F("n_boxes") = RInt(Len(CallClasses))
        /\ F("cnt_minor") = RInt(LabelsOf(T_minor))
        /\ F("cnt_moderate") = RInt(LabelsOf(T_moderate))
        /\ F("cnt_severe") = RInt(LabelsOf(T_severe))
        /\ CallAreas = <<>> => \A name \in AreaFields : F(name) = RInt(0)
        /\ CallConfs = <<>> => \A name \in ConfFields : F(name) = RInt(0)

(* the objects the requests now hold as the result of load_price_model *)
ObservedModels ==
    {threads[r].result[1] : r \in {q \in Requests : threads[q].pc = "done"
                                                    /\ threads[q].result # None}}

C17_AbsentCallChangesNothing ==
    [][\A r \in Requests :
          (threads[r].pc = "l35" /\ threads'[r].pc = "done") =>
              /\ threads'[r].result = None
              /\ UNCHANGED <<MODEL_CACHE, model_file, loaded>>]_vars

===========================================================================
